---- MODULE Spec2Model ----
(***************************************************************************)
(* Booking lifecycle (Order, Job) and rating aggregation of the Plenty     *)
(* Events backend: the controllers rateVendor, hireVendor,                 *)
(* updateOrderStatus, rateWaiter, hireWaiter, updateJobStatus,             *)
(* getRatingById, deleteRating and the Rating / Vendor / Waiter model      *)
(* hooks they run.                                                         *)
(*                                                                         *)
(* Conventions.  A collection is a sequence of documents, a document's     *)
(* _id is its index.  averageRating is kept in tenths (44 is 4.4).  An     *)
(* ObjectId reference is a record [pop, id]: pop = FALSE is the bare       *)
(* ObjectId, pop = TRUE the document put in its place by populate().       *)
(***************************************************************************)
EXTENDS Integers, Sequences, FiniteSets

\* ------------------------------------------------------------------ bounds
MaxOrders == 2
MaxJobs == 2
\* the orders of SpecRating, each of which can get one rating
MaxRatedOrders == 1
MaxRatings == 3

\* requests in flight at the same time (SpecConc)
Slots == {1, 2}

\* ---------------------------------------------------------------- accounts
Users == {"u1", "u2"}
Vendors == {"v1", "v2"}
Waiters == {"w1", "w2"}
AdminUser == "admin"

VendorUser(v) == IF v = "v1" THEN "vu1" ELSE "vu2"
WaiterUser(w) == IF w = "w1" THEN "wu1" ELSE "wu2"
VendorUsers == {VendorUser(v) : v \in Vendors}
WaiterUsers == {WaiterUser(w) : w \in Waiters}
Accounts == Users \cup VendorUsers \cup WaiterUsers \cup {AdminUser}

Role(a) ==
  IF a = AdminUser THEN "admin"
  ELSE IF a \in VendorUsers THEN "vendor"
  ELSE IF a \in WaiterUsers THEN "waiter"
  ELSE "user"

None == "none"
\* an absent reference to an Order, a Job or a Rating (the _id values start at 1),
\* and an absent score
NoDoc == 0
NoScore == 0

\* ------------------------------------------------------------------- enums
OrderStatuses ==
  {"pending", "confirmed", "in-progress", "completed", "cancelled", "refunded"}
JobStatuses ==
  {"pending", "accepted", "declined", "in-progress", "completed", "cancelled"}
\* body("status").isIn([...]) of PUT /orders/:orderId
OrderStatusInputs ==
  {"pending", "confirmed", "in-progress", "completed", "cancelled"}
\* body("rating").isInt({min: 1, max: 5}); the scores the model submits
Scores == {4, 5}

VARIABLES orders, jobs, ratings, vendors, waiters, users, mail, last, reqs

vars == <<orders, jobs, ratings, vendors, waiters, users, mail, last, reqs>>

\* ----------------------------------------------------- ObjectId / populate
Ref(id) == [pop |-> FALSE, id |-> id]
Doc(id) == [pop |-> TRUE, id |-> id]

\* ObjectId.prototype.toString() is the hex id; Document.prototype.toString()
\* is the inspect() text of the document, never the hex id alone.
ToString(x) == IF x.pop THEN <<"inspect", x.id>> ELSE <<"hex", x.id>>

\* ------------------------------------------------------------------ helpers
RECURSIVE SumOver(_, _)
SumOver(f, S) ==
  IF S = {} THEN 0
  ELSE LET x == CHOOSE y \in S : TRUE IN f[x] + SumOver(f, S \ {x})

\* Math.ceil(avg * 10) / 10 with avg = sum / n, in tenths
CeilTenths(sum, n) == (10 * sum + n - 1) \div n

\* the response to the latest request: who asked what of which profile
\* (target) or document (doc, an _id) with which status argument (arg), and the
\* HTTP status code of the answer
Response(op, actor, target, doc, arg, code) ==
  [op |-> op, actor |-> actor, target |-> target, doc |-> doc, arg |-> arg,
   code |-> code]

\* --------------------------------------------------------------- documents
\* Order.create({user, vendor, ...}): status defaults to "pending", isRated to false
\* faulty variant: an order is created with the flag already set
NewOrderAlreadyRated(u, v) ==
  [user |-> u, vendor |-> v, status |-> "pending", isRated |-> TRUE]

NewOrder(u, v) ==
  [user |-> u, vendor |-> v, status |-> "pending", isRated |-> FALSE]

\* Date.now() as the requests read it, and a Date that is not set
Times == {1, 2}
NoTime == 0

\* ratingSchema.response of a rating nobody has responded to
NoResponse == [message |-> None, respondedAt |-> NoTime]

\* Rating.create({reviewer, vendor, order, rating, ...}): isActive defaults to
\* true, isReported to false
NewVendorRating(u, v, o, score) ==
  [reviewer |-> u, vendor |-> v, waiter |-> None, order |-> o, job |-> NoDoc,
   rating |-> score, attitudeRating |-> NoScore, isActive |-> TRUE,
   isReported |-> FALSE, reportReason |-> None, response |-> NoResponse]

\* userSchema: isApproved, which defaults to role === "user"
NewUser(isApproved) == [isApproved |-> isApproved]

\* what becomes of the notification email of a request that gets as far as
\* sending one: no credentials configured, delivered, or the send throws; the
\* variable mail holds it for the latest request, "none" when that sent none
EmailOutcomes == {"skipped", "sent", "failed"}

\* faulty variant: the send is not wrapped in try / catch
AfterEmailUncaught(email, code) == IF email = "failed" THEN 500 ELSE code

\* try { await send } catch { console.error }: the status the request goes on
\* to answer with
AfterEmail(email, code) == code

NewVendor ==
  [averageRating |-> 0, totalRatings |-> 0, totalBookings |-> 0,
   completedBookings |-> 0, isAvailable |-> TRUE]

NewWaiter ==
  [averageRating |-> 0, attitudeRating |-> 0, totalRatings |-> 0,
   totalJobs |-> 0, completedJobs |-> 0, isAvailable |-> TRUE]

\* ------------------------------------------------------------- Rating model
\* faulty variant: the unique indexes are missing
NoUniqueIndex(rs, doc) == FALSE

\* the two unique partial indexes of ratingSchema: a document is indexed when
\* it has the target and the transaction; isActive is not part of the key
UniqueIndexViolated(rs, doc) ==
  \E i \in DOMAIN rs :
    \/ /\ doc.vendor # None /\ doc.order # NoDoc
       /\ rs[i].vendor # None /\ rs[i].order # NoDoc
       /\ rs[i].reviewer = doc.reviewer
       /\ rs[i].vendor = doc.vendor
       /\ rs[i].order = doc.order
    \/ /\ doc.waiter # None /\ doc.job # NoDoc
       /\ rs[i].waiter # None /\ rs[i].job # NoDoc
       /\ rs[i].reviewer = doc.reviewer
       /\ rs[i].waiter = doc.waiter
       /\ rs[i].job = doc.job

\* faulty variant: the validation hook is missing
RatingPreSaveSkipped(doc) == TRUE

\* ratingSchema.pre("save"): either a vendor or a waiter, not both or neither
RatingPreSaveOk(doc) ==
  ~ \/ (doc.vendor # None /\ doc.waiter # None)
    \/ (doc.vendor = None /\ doc.waiter = None)

\* ratingSchema.pre(/^find/): every find populates reviewer
RatingFindById(rs, r) == [rs[r] EXCEPT !.reviewer = Doc(@)]

\* documents with both targets and with neither, as Rating.create could be
\* handed them
RatingsWithBothOrNeither ==
  {[NewVendorRating(u, "v1", o, 5) EXCEPT !.waiter = "w1"] :
     u \in Users, o \in {NoDoc, 1}}
  \cup {[NewVendorRating(u, "v1", o, 5) EXCEPT !.vendor = None] :
     u \in Users, o \in {NoDoc, 1}}

\* ------------------------------------------------------------- Vendor model
\* $match {vendor: this._id} of vendorSchema.methods.updateRating
VendorRatingIds(rs, v) == {i \in DOMAIN rs : rs[i].vendor = v}

\* faulty variant: the count is added to the stored count instead of replacing it
VendorUpdateRatingRunning(vd, rs, v) ==
  LET S == VendorRatingIds(rs, v)
      score == [i \in DOMAIN rs |-> rs[i].rating]
  IN IF S # {}
     THEN [vd EXCEPT !.averageRating = CeilTenths(SumOver(score, S), Cardinality(S)),
                     !.totalRatings = @ + Cardinality(S)]
     ELSE [vd EXCEPT !.averageRating = 0, !.totalRatings = 0]

\* vendorSchema.methods.updateRating on the vendor document vd of profile v
VendorUpdateRating(vd, rs, v) ==
  LET S == VendorRatingIds(rs, v)
      score == [i \in DOMAIN rs |-> rs[i].rating]
  IN IF S # {}
     THEN [vd EXCEPT !.averageRating = CeilTenths(SumOver(score, S), Cardinality(S)),
                     !.totalRatings = Cardinality(S)]
     ELSE [vd EXCEPT !.averageRating = 0, !.totalRatings = 0]

\* ------------------------------------------------------------- Waiter model
WaiterRatingIds(rs, w) == {i \in DOMAIN rs : rs[i].waiter = w}

\* $avg ignores the documents without the field and is null when none has it;
\* Math.ceil(null * 10) / 10 is 0
WaiterUpdateRating(wd, rs, w) ==
  LET S == WaiterRatingIds(rs, w)
      A == {i \in S : rs[i].attitudeRating # NoScore}
      score == [i \in DOMAIN rs |-> rs[i].rating]
      attitude == [i \in DOMAIN rs |-> rs[i].attitudeRating]
  IN IF S # {}
     THEN [wd EXCEPT !.averageRating = CeilTenths(SumOver(score, S), Cardinality(S)),
                     !.attitudeRating =
                        IF A = {} THEN 0
                        ELSE CeilTenths(SumOver(attitude, A), Cardinality(A)),
                     !.totalRatings = Cardinality(S)]
     ELSE [wd EXCEPT !.averageRating = 0, !.attitudeRating = 0, !.totalRatings = 0]

\* ratingSchema.post("save"): recompute the aggregate of the rated profile
VendorsAfterRatingSave(vs, rs, doc) ==
  IF doc.vendor # None
  THEN [vs EXCEPT ![doc.vendor] = VendorUpdateRating(@, rs, doc.vendor)]
  ELSE vs

WaitersAfterRatingSave(ws, rs, doc) ==
  IF doc.waiter # None
  THEN [ws EXCEPT ![doc.waiter] = WaiterUpdateRating(@, rs, doc.waiter)]
  ELSE ws

\* ------------------------------------------------------------- middleware
\* checkApproval: req.user.isApproved
CheckApproval(a) == users[a].isApproved

\* ------------------------------------------------------ vendor controller
\* Vendor.findOne({user: req.user._id})
VendorOfUser(a) == {v \in Vendors : VendorUser(v) = a}

\* faulty variant of the order table: a cancelled order may be refunded
OrderValidTransitionsRefunds(status) ==
  CASE status = "pending" -> {"confirmed", "cancelled"}
    [] status = "confirmed" -> {"in-progress", "cancelled"}
    [] status = "in-progress" -> {"completed", "cancelled"}
    [] status = "completed" -> {}
    [] status = "cancelled" -> {"refunded"}
    [] status = "refunded" -> {}

\* faulty variant of the order table: a completed order may still be cancelled
OrderValidTransitionsReopens(status) ==
  CASE status = "pending" -> {"confirmed", "cancelled"}
    [] status = "confirmed" -> {"in-progress", "cancelled"}
    [] status = "in-progress" -> {"completed", "cancelled"}
    [] status = "completed" -> {"cancelled"}
    [] status = "cancelled" -> {}
    [] status = "refunded" -> {}

\* validTransitions of updateOrderStatus
OrderValidTransitions(status) ==
  CASE status = "pending" -> {"confirmed", "cancelled"}
    [] status = "confirmed" -> {"in-progress", "cancelled"}
    [] status = "in-progress" -> {"completed", "cancelled"}
    [] status = "completed" -> {}
    [] status = "cancelled" -> {}
    [] status = "refunded" -> {}

\* faulty variant: the counter is raised on every accepted transition
VendorStatsAfterAnyStatus(vd, status) ==
  [vd EXCEPT !.completedBookings = @ + 1]

\* "Update vendor stats when order is completed" of updateOrderStatus
VendorStatsAfterStatus(vd, status) ==
  IF status = "completed"
  THEN [vd EXCEPT !.completedBookings = @ + 1]
  ELSE vd

\* faulty variant: a hire leaves the vendor's counters alone
VendorStatsAfterHireForgotten(vd) == vd

\* "Update vendor's total bookings" of hireVendor
VendorStatsAfterHire(vd) == [vd EXCEPT !.totalBookings = @ + 1]

\* faulty variant: the status filter is missing from the query
FindOrdersAnyStatus(os, u, v) ==
  {o \in DOMAIN os : os[o].user = u /\ os[o].vendor = v}

\* Order.findOne({user, vendor, status: "completed"}): the documents that match
FindCompletedOrders(os, u, v) ==
  {o \in DOMAIN os :
     os[o].user = u /\ os[o].vendor = v /\ os[o].status = "completed"}

\* Rating.findOne({reviewer, vendor, order}): the documents that match
FindVendorRatings(rs, u, v, o) ==
  {i \in DOMAIN rs :
     rs[i].reviewer = u /\ rs[i].vendor = v /\ rs[i].order = o}

\* ------------------------------------------------------ waiter controller
\* Job.create({vendor, waiter, order, ...}): status defaults to "pending"
NewJob(v, w, o) ==
  [vendor |-> v, waiter |-> w, order |-> o, status |-> "pending",
   isRated |-> FALSE, respondedAt |-> FALSE, declineReason |-> None,
   completedAt |-> FALSE]

\* jobSchema: vendor, waiter and order are required
JobValidationOk(doc) ==
  doc.vendor # None /\ doc.waiter # None /\ doc.order # NoDoc

\* Rating.create({reviewer, waiter, job, rating, attitudeRating, ...})
NewWaiterRating(a, w, j, score, attitude) ==
  [reviewer |-> a, vendor |-> None, waiter |-> w, order |-> NoDoc, job |-> j,
   rating |-> score, attitudeRating |-> attitude, isActive |-> TRUE,
   isReported |-> FALSE, reportReason |-> None, response |-> NoResponse]

\* Waiter.findOne({user: req.user._id})
WaiterOfUser(a) == {w \in Waiters : WaiterUser(w) = a}

\* req.user.vendorProfile: req.user is the User document set by protect, and
\* userSchema has no vendorProfile path, so the property is undefined
ReqUserVendorProfile(a) == None

\* faulty variant of the job table: a declined job may still be accepted
JobValidTransitionsReopens(status) ==
  CASE status = "pending" -> {"accepted", "declined"}
    [] status = "accepted" -> {"in-progress", "cancelled"}
    [] status = "declined" -> {"accepted"}
    [] status = "in-progress" -> {"completed"}
    [] status = "completed" -> {}
    [] status = "cancelled" -> {}

\* validTransitions of updateJobStatus
JobValidTransitions(status) ==
  CASE status = "pending" -> {"accepted", "declined"}
    [] status = "accepted" -> {"in-progress", "cancelled"}
    [] status = "declined" -> {}
    [] status = "in-progress" -> {"completed"}
    [] status = "completed" -> {}
    [] status = "cancelled" -> {}

\* req.body.declineReason of PUT /jobs/:jobId: absent, or a text
DeclineReasons == {None, "busy"}

\* faulty variant: only an acceptance stamps respondedAt
JobAfterStatusDeclineUnstamped(job, status, declineReason) ==
  [job EXCEPT
     !.status = status,
     !.respondedAt = IF status = "accepted" THEN TRUE ELSE @,
     !.declineReason =
        IF status = "declined" /\ declineReason # None THEN declineReason ELSE @,
     !.completedAt = IF status = "completed" THEN TRUE ELSE @]

\* the assignments of updateJobStatus to the job document: status, respondedAt
\* and declineReason, completedAt
JobAfterStatus(job, status, declineReason) ==
  [job EXCEPT
     !.status = status,
     !.respondedAt = IF status \in {"accepted", "declined"} THEN TRUE ELSE @,
     !.declineReason =
        IF status = "declined" /\ declineReason # None THEN declineReason ELSE @,
     !.completedAt = IF status = "completed" THEN TRUE ELSE @]

\* "Update waiter stats when job is completed" of updateJobStatus
WaiterStatsAfterStatus(wd, status) ==
  IF status = "completed"
  THEN [wd EXCEPT !.completedJobs = @ + 1, !.totalJobs = @ + 1]
  ELSE IF status = "accepted"
  THEN [wd EXCEPT !.totalJobs = @ + 1]
  ELSE wd

\* Job.findOne({waiter, vendor, status: "completed"}): the documents that match;
\* a filter value of undefined matches the documents whose field is null or absent
FindCompletedJobs(js, w, vp) ==
  {j \in DOMAIN js :
     js[j].waiter = w /\ js[j].vendor = vp /\ js[j].status = "completed"}

\* Rating.findOne({reviewer, waiter, job}): the documents that match
FindWaiterRatings(rs, a, w, j) ==
  {i \in DOMAIN rs :
     rs[i].reviewer = a /\ rs[i].waiter = w /\ rs[i].job = j}

\* ------------------------------------------------- a request in flight
\* the locals of a rateVendor request between two awaits: pc is the await it
\* is suspended at, snap* the vendor document read by the post("save") hook,
\* agg* the result of its Rating.aggregate
Idle ==
  [pc |-> "idle", actor |-> None, vendor |-> None, score |-> NoScore,
   order |-> NoDoc, snapAvg |-> 0, snapTotal |-> 0, aggAvg |-> 0, aggTotal |-> 0,
   status |-> None, snapCompleted |-> 0, snapBookings |-> 0]

\* the accounts are registered and approved, nothing has been booked
Init ==
  /\ orders = <<>>
  /\ jobs = <<>>
  /\ ratings = <<>>
  /\ vendors = [v \in Vendors |-> NewVendor]
  /\ waiters = [w \in Waiters |-> NewWaiter]
  /\ users = [a \in Accounts |-> NewUser(TRUE)]
  /\ mail = "none"
  /\ last = Response("none", None, None, NoDoc, None, 0)
  /\ reqs = [p \in Slots |-> Idle]

\* POST /api/vendors/:id/hire by user u for vendor v; email is what happens to
\* the booking emails
HireVendor(u, v, eventTypeOk, email) ==
  /\ Len(orders) < MaxOrders
  /\ IF ~vendors[v].isAvailable
     THEN /\ last' = Response("hireVendor", u, v, NoDoc, None, 400)
          /\ mail' = "none"
          /\ UNCHANGED <<orders, vendors>>
     ELSE IF ~eventTypeOk
     THEN /\ last' = Response("hireVendor", u, v, NoDoc, None, 400)
          /\ mail' = "none"
          /\ UNCHANGED <<orders, vendors>>
     ELSE /\ orders' = Append(orders, NewOrder(u, v))
          /\ vendors' = [vendors EXCEPT ![v] = VendorStatsAfterHire(@)]
          \* the emails are sent inside try / catch, after the two writes
          /\ mail' = email
          /\ last' = Response("hireVendor", u, v, Len(orders) + 1, None,
                              AfterEmail(email, 201))
  /\ UNCHANGED <<jobs, ratings, waiters, reqs, users>>

\* faulty variant: the order is looked up by its id alone
FindOrderById(os, o, v) == {i \in DOMAIN os : i = o}

\* Order.findOne({_id: req.params.orderId, vendor: vendor._id})
FindOrderOfVendor(os, o, v) == {i \in DOMAIN os : i = o /\ os[i].vendor = v}

\* PUT /api/vendors/orders/:orderId by vendor account a with body {status}
UpdateOrderStatus(a, o, status) ==
  LET owned == VendorOfUser(a) IN
  /\ IF ~CheckApproval(a)
     THEN /\ last' = Response("updateOrderStatus", a, None, o, status, 403)
          /\ UNCHANGED <<orders, vendors, reqs>>
     ELSE IF status \notin OrderStatusInputs
     THEN /\ last' = Response("updateOrderStatus", a, None, o, status, 400)
          /\ UNCHANGED <<orders, vendors, reqs>>
     ELSE IF owned = {}
     THEN /\ last' = Response("updateOrderStatus", a, None, o, status, 404)
          /\ UNCHANGED <<orders, vendors, reqs>>
     ELSE LET v == CHOOSE x \in owned : TRUE IN
          IF FindOrderOfVendor(orders, o, v) = {}
          THEN /\ last' = Response("updateOrderStatus", a, None, o, status, 404)
               /\ UNCHANGED <<orders, vendors, reqs>>
          ELSE IF status \notin OrderValidTransitions(orders[o].status)
          THEN /\ last' = Response("updateOrderStatus", a, None, o, status, 400)
               /\ UNCHANGED <<orders, vendors, reqs>>
          ELSE /\ orders' = [orders EXCEPT ![o].status = status]
               /\ vendors' = [vendors EXCEPT ![v] = VendorStatsAfterStatus(@, status)]
               /\ last' = Response("updateOrderStatus", a, None, o, status, 200)
  /\ mail' = "none"
  /\ UNCHANGED <<jobs, ratings, waiters, reqs, users>>

\* faulty variant of rateVendor: neither the existing-rating lookup nor the
\* duplicate key error stops the request
RateVendorNoDuplicateCheck(u, v, score) ==
  LET found == FindCompletedOrders(orders, u, v) IN
  /\ IF found = {}
     THEN /\ last' = Response("rateVendor", u, v, NoDoc, None, 400)
          /\ UNCHANGED <<orders, ratings, vendors>>
     ELSE \E o \in found :
          LET doc == NewVendorRating(u, v, o, score) IN
          /\ ratings' = Append(ratings, doc)
          /\ vendors' = VendorsAfterRatingSave(vendors, ratings', doc)
          /\ orders' = [orders EXCEPT ![o].isRated = TRUE]
          /\ last' = Response("rateVendor", u, v, o, None, 201)
  /\ mail' = "none"
  /\ UNCHANGED <<jobs, waiters, reqs, users>>

\* POST /api/vendors/:id/rate by user u for vendor v with body {rating: score};
\* findOne returns one of the matching orders, which one is the store's choice
RateVendor(u, v, score) ==
  LET found == FindCompletedOrders(orders, u, v) IN
  /\ IF found = {}
     THEN /\ last' = Response("rateVendor", u, v, NoDoc, None, 400)
          /\ UNCHANGED <<orders, ratings, vendors, reqs>>
     ELSE \E o \in found :
          LET doc == NewVendorRating(u, v, o, score) IN
          IF FindVendorRatings(ratings, u, v, o) # {}
          THEN /\ last' = Response("rateVendor", u, v, o, None, 400)
               /\ UNCHANGED <<orders, ratings, vendors, reqs>>
          ELSE IF UniqueIndexViolated(ratings, doc) \/ ~RatingPreSaveOk(doc)
          THEN /\ last' = Response("rateVendor", u, v, o, None, 400)
               /\ UNCHANGED <<orders, ratings, vendors, reqs>>
          ELSE /\ ratings' = Append(ratings, doc)
               /\ vendors' = VendorsAfterRatingSave(vendors, ratings', doc)
               /\ orders' = [orders EXCEPT ![o].isRated = TRUE]
               /\ last' = Response("rateVendor", u, v, o, None, 201)
  /\ mail' = "none"
  /\ UNCHANGED <<jobs, waiters, reqs, users>>

\* faulty variant: the authorization check is missing
CanDeleteAnyone(a, rating) == TRUE

\* canDelete of deleteRating, rating being the document Rating.findById returned
CanDelete(a, rating) ==
  \/ Role(a) = "admin"
  \/ ToString(rating.reviewer) = ToString(Ref(a))

\* DELETE /api/ratings/:id by account a
DeleteRating(a, r) ==
  /\ IF r \notin DOMAIN ratings
     THEN /\ last' = Response("deleteRating", a, None, r, None, 404)
          /\ UNCHANGED <<ratings, vendors, waiters>>
     ELSE LET rating == RatingFindById(ratings, r) IN
          IF ~CanDelete(a, rating)
          THEN /\ last' = Response("deleteRating", a, None, r, None, 403)
               /\ UNCHANGED <<ratings, vendors, waiters>>
          ELSE /\ ratings' = [ratings EXCEPT ![r].isActive = FALSE]
               /\ vendors' = VendorsAfterRatingSave(vendors, ratings', ratings[r])
               /\ waiters' = WaitersAfterRatingSave(waiters, ratings', ratings[r])
               /\ last' = Response("deleteRating", a, None, r, None, 200)
  /\ mail' = "none"
  /\ UNCHANGED <<orders, jobs, reqs, users>>

\* GET /api/ratings/:id by account a
GetRatingById(a, r) ==
  /\ IF r \notin DOMAIN ratings
     THEN last' = Response("getRatingById", a, None, r, None, 404)
     ELSE LET rating == RatingFindById(ratings, r)
              \* .populate({path: "vendor", populate: {path: "user"}})
              vendorUser ==
                IF rating.vendor # None THEN Doc(VendorUser(rating.vendor)) ELSE None
              waiterUser ==
                IF rating.waiter # None THEN Doc(WaiterUser(rating.waiter)) ELSE None
              canView ==
                \/ Role(a) = "admin"
                \/ ToString(Ref(rating.reviewer.id)) = ToString(Ref(a))
                \/ (rating.vendor # None /\ ToString(vendorUser) = ToString(Ref(a)))
                \/ (rating.waiter # None /\ ToString(waiterUser) = ToString(Ref(a)))
          IN
          IF ~canView
          THEN last' = Response("getRatingById", a, None, r, None, 403)
          ELSE last' = Response("getRatingById", a, None, r, None, 200)
  /\ mail' = "none"
  /\ UNCHANGED <<orders, jobs, ratings, vendors, waiters, reqs, users>>

\* req.body.reason of POST /:id/report and req.body.message of POST
\* /:id/respond: the routes validate neither, None is a body without the field
ReportReasons == {None, "spam"}
Messages == {None, "", "thanks"}

\* faulty variant: a reported rating is taken out of the listing at once
ReportedRatingHidden(rating, reason) ==
  [rating EXCEPT !.isReported = TRUE,
                 !.reportReason =
                    IF reason \in {None, ""} THEN "Inappropriate content" ELSE reason,
                 !.isActive = FALSE]

\* "Report the rating" of reportRating: req.body.reason || "Inappropriate content"
ReportedRating(rating, reason) ==
  [rating EXCEPT !.isReported = TRUE,
                 !.reportReason =
                    IF reason \in {None, ""} THEN "Inappropriate content" ELSE reason]

\* POST /api/ratings/:id/report by account a, body {reason}; rating.save() runs
\* the pre("save") and post("save") hooks
ReportRating(a, r, reason) ==
  /\ IF r \notin DOMAIN ratings
     THEN /\ last' = Response("reportRating", a, None, r, None, 404)
          /\ UNCHANGED <<ratings, vendors, waiters>>
     ELSE IF ratings[r].isReported
     THEN /\ last' = Response("reportRating", a, None, r, None, 400)
          /\ UNCHANGED <<ratings, vendors, waiters>>
     ELSE IF ~RatingPreSaveOk(ratings[r])
     THEN /\ last' = Response("reportRating", a, None, r, None, 500)
          /\ UNCHANGED <<ratings, vendors, waiters>>
     ELSE /\ ratings' = [ratings EXCEPT ![r] = ReportedRating(@, reason)]
          /\ vendors' = VendorsAfterRatingSave(vendors, ratings', ratings[r])
          /\ waiters' = WaitersAfterRatingSave(waiters, ratings', ratings[r])
          /\ last' = Response("reportRating", a, None, r, None, 200)
  /\ mail' = "none"
  /\ UNCHANGED <<orders, jobs, reqs, users>>

\* canRespond of respondToRating: the Vendor (Waiter) with _id rating.vendor
\* (rating.waiter) and user req.user._id exists
CanRespond(a, rating) ==
  LET first == rating.vendor # None /\ Role(a) = "vendor"
                 /\ VendorUser(rating.vendor) = a
  IN IF rating.waiter # None /\ Role(a) = "waiter"
     THEN WaiterUser(rating.waiter) = a
     ELSE first

\* "Check if already responded": rating.response && rating.response.message
AlreadyResponded(rating) == rating.response.message \notin {None, ""}

\* POST /api/ratings/:id/respond by vendor or waiter account a, body {message},
\* at time now
RespondToRating(a, r, message, now) ==
  /\ IF r \notin DOMAIN ratings
     THEN /\ last' = Response("respondToRating", a, None, r, None, 404)
          /\ UNCHANGED <<ratings, vendors, waiters>>
     ELSE IF ~CanRespond(a, ratings[r])
     THEN /\ last' = Response("respondToRating", a, None, r, None, 403)
          /\ UNCHANGED <<ratings, vendors, waiters>>
     ELSE IF AlreadyResponded(ratings[r])
     THEN /\ last' = Response("respondToRating", a, None, r, None, 400)
          /\ UNCHANGED <<ratings, vendors, waiters>>
     ELSE IF ~RatingPreSaveOk(ratings[r])
     THEN /\ last' = Response("respondToRating", a, None, r, None, 500)
          /\ UNCHANGED <<ratings, vendors, waiters>>
     ELSE /\ ratings' = [ratings EXCEPT
                           ![r].response = [message |-> message, respondedAt |-> now]]
          /\ vendors' = VendorsAfterRatingSave(vendors, ratings', ratings[r])
          /\ waiters' = WaitersAfterRatingSave(waiters, ratings', ratings[r])
          /\ last' = Response("respondToRating", a, None, r, None, 200)
  /\ mail' = "none"
  /\ UNCHANGED <<orders, jobs, reqs, users>>

\* POST /api/waiters/:id/hire by vendor account a for waiter w, body {orderId};
\* email is what happens to the job offer email
HireWaiter(a, w, orderId, email) ==
  LET owned == VendorOfUser(a) IN
  /\ Len(jobs) < MaxJobs
  /\ IF ~CheckApproval(a)
     THEN /\ last' = Response("hireWaiter", a, w, NoDoc, None, 403)
          /\ mail' = "none"
          /\ UNCHANGED jobs
     ELSE IF ~waiters[w].isAvailable
     THEN /\ last' = Response("hireWaiter", a, w, NoDoc, None, 400)
          /\ mail' = "none"
          /\ UNCHANGED jobs
     ELSE IF owned = {}
     THEN /\ last' = Response("hireWaiter", a, w, NoDoc, None, 404)
          /\ mail' = "none"
          /\ UNCHANGED jobs
     ELSE LET vendorProfile == CHOOSE x \in owned : TRUE
              doc == NewJob(vendorProfile, w, orderId)
          IN
          IF /\ orderId # NoDoc
             /\ (orderId \notin DOMAIN orders \/ orders[orderId].vendor # vendorProfile)
          THEN /\ last' = Response("hireWaiter", a, w, NoDoc, None, 404)
               /\ mail' = "none"
               /\ UNCHANGED jobs
          ELSE IF ~JobValidationOk(doc)
          THEN /\ last' = Response("hireWaiter", a, w, NoDoc, None, 400)
               /\ mail' = "none"
               /\ UNCHANGED jobs
          ELSE /\ jobs' = Append(jobs, doc)
               \* the email is sent inside try / catch, after Job.create
               /\ mail' = email
               /\ last' = Response("hireWaiter", a, w, Len(jobs) + 1, None,
                                   AfterEmail(email, 201))
  /\ UNCHANGED <<orders, ratings, vendors, waiters, reqs, users>>

\* PUT /api/waiters/jobs/:jobId by waiter account a, body {status, declineReason}
UpdateJobStatus(a, j, status, declineReason) ==
  LET owned == WaiterOfUser(a) IN
  /\ IF ~CheckApproval(a)
     THEN /\ last' = Response("updateJobStatus", a, None, j, status, 403)
          /\ UNCHANGED <<jobs, waiters, reqs>>
     ELSE IF owned = {}
     THEN /\ last' = Response("updateJobStatus", a, None, j, status, 404)
          /\ UNCHANGED <<jobs, waiters, reqs>>
     ELSE LET w == CHOOSE x \in owned : TRUE IN
          IF j \notin DOMAIN jobs \/ jobs[j].waiter # w
          THEN /\ last' = Response("updateJobStatus", a, None, j, status, 404)
               /\ UNCHANGED <<jobs, waiters, reqs>>
          ELSE IF status \notin JobValidTransitions(jobs[j].status)
          THEN /\ last' = Response("updateJobStatus", a, None, j, status, 400)
               /\ UNCHANGED <<jobs, waiters, reqs>>
          ELSE /\ jobs' = [jobs EXCEPT ![j] = JobAfterStatus(@, status, declineReason)]
               /\ waiters' = [waiters EXCEPT ![w] = WaiterStatsAfterStatus(@, status)]
               /\ last' = Response("updateJobStatus", a, None, j, status, 200)
  /\ mail' = "none"
  /\ UNCHANGED <<orders, ratings, vendors, reqs, users>>

\* POST /api/waiters/:id/rate by vendor account a for waiter w
RateWaiter(a, w, score, attitude) ==
  LET found == FindCompletedJobs(jobs, w, ReqUserVendorProfile(a)) IN
  /\ IF found = {}
     THEN /\ last' = Response("rateWaiter", a, w, NoDoc, None, 400)
          /\ UNCHANGED <<jobs, ratings, waiters, reqs>>
     ELSE \E j \in found :
          LET doc == NewWaiterRating(a, w, j, score, attitude) IN
          IF FindWaiterRatings(ratings, a, w, j) # {}
          THEN /\ last' = Response("rateWaiter", a, w, j, None, 400)
               /\ UNCHANGED <<jobs, ratings, waiters, reqs>>
          ELSE IF UniqueIndexViolated(ratings, doc) \/ ~RatingPreSaveOk(doc)
          THEN /\ last' = Response("rateWaiter", a, w, j, None, 400)
               /\ UNCHANGED <<jobs, ratings, waiters, reqs>>
          ELSE /\ ratings' = Append(ratings, doc)
               /\ waiters' = WaitersAfterRatingSave(waiters, ratings', doc)
               /\ jobs' = [jobs EXCEPT ![j].isRated = TRUE]
               /\ last' = Response("rateWaiter", a, w, j, None, 201)
  /\ mail' = "none"
  /\ UNCHANGED <<orders, vendors, reqs, users>>

\* ---------------------------------------- rateVendor, one await at a time
\* Vendor.findById and Order.findOne of rateVendor
RateVendorFindOrder(p, u, v, score) ==
  LET found == FindCompletedOrders(orders, u, v) IN
  /\ reqs[p].pc = "idle"
  /\ IF found = {}
     THEN /\ last' = Response("rateVendor", u, v, NoDoc, None, 400)
          /\ UNCHANGED reqs
     ELSE /\ \E o \in found :
               reqs' = [reqs EXCEPT ![p] =
                          [Idle EXCEPT !.pc = "findRating", !.actor = u,
                                       !.vendor = v, !.score = score, !.order = o]]
          /\ UNCHANGED last
  /\ mail' = "none"
  /\ UNCHANGED <<orders, jobs, ratings, vendors, waiters, users>>

\* Rating.findOne of rateVendor
RateVendorFindRating(p) ==
  LET rq == reqs[p] IN
  /\ rq.pc = "findRating"
  /\ IF FindVendorRatings(ratings, rq.actor, rq.vendor, rq.order) # {}
     THEN /\ last' = Response("rateVendor", rq.actor, rq.vendor, rq.order, None, 400)
          /\ reqs' = [reqs EXCEPT ![p] = Idle]
     ELSE /\ reqs' = [reqs EXCEPT ![p].pc = "create"]
          /\ UNCHANGED last
  /\ mail' = "none"
  /\ UNCHANGED <<orders, jobs, ratings, vendors, waiters, users>>

\* Rating.create of rateVendor: the insert, checked against the unique indexes;
\* a duplicate key error (code 11000) ends the request with status 400
RateVendorCreate(p) ==
  LET rq == reqs[p]
      doc == NewVendorRating(rq.actor, rq.vendor, rq.order, rq.score)
  IN
  /\ rq.pc = "create"
  /\ IF UniqueIndexViolated(ratings, doc) \/ ~RatingPreSaveOk(doc)
     THEN /\ last' = Response("rateVendor", rq.actor, rq.vendor, rq.order, None, 400)
          /\ reqs' = [reqs EXCEPT ![p] = Idle]
          /\ UNCHANGED ratings
     ELSE /\ ratings' = Append(ratings, doc)
          /\ reqs' = [reqs EXCEPT ![p].pc = "hookFind"]
          /\ UNCHANGED last
  /\ mail' = "none"
  /\ UNCHANGED <<orders, jobs, vendors, waiters, users>>

\* ratingSchema.post("save"): Vendor.findById(this.vendor)
RatingPostSaveFind(p) ==
  LET rq == reqs[p] IN
  /\ rq.pc = "hookFind"
  /\ reqs' = [reqs EXCEPT ![p].pc = "hookAggregate",
                          ![p].snapAvg = vendors[rq.vendor].averageRating,
                          ![p].snapTotal = vendors[rq.vendor].totalRatings]
  /\ mail' = "none"
  /\ UNCHANGED <<orders, jobs, ratings, vendors, waiters, last, users>>

\* vendor.updateRating(): Rating.aggregate and the assignments to this
RatingPostSaveAggregate(p) ==
  LET rq == reqs[p]
      doc == VendorUpdateRating(vendors[rq.vendor], ratings, rq.vendor)
  IN
  /\ rq.pc = "hookAggregate"
  /\ reqs' = [reqs EXCEPT ![p].pc = "hookSave",
                          ![p].aggAvg = doc.averageRating,
                          ![p].aggTotal = doc.totalRatings]
  /\ mail' = "none"
  /\ UNCHANGED <<orders, jobs, ratings, vendors, waiters, last, users>>

\* vendor.updateRating(): this.save() writes the paths whose value changed
RatingPostSaveSave(p) ==
  LET rq == reqs[p] IN
  /\ rq.pc = "hookSave"
  /\ vendors' =
       [vendors EXCEPT
          ![rq.vendor].averageRating =
             IF rq.aggAvg # rq.snapAvg THEN rq.aggAvg ELSE @,
          ![rq.vendor].totalRatings =
             IF rq.aggTotal # rq.snapTotal THEN rq.aggTotal ELSE @]
  /\ reqs' = [reqs EXCEPT ![p].pc = "markRated"]
  /\ mail' = "none"
  /\ UNCHANGED <<orders, jobs, ratings, waiters, last, users>>

\* existingOrder.isRated = true; existingOrder.save(); res.status(201)
RateVendorMarkRated(p) ==
  LET rq == reqs[p] IN
  /\ rq.pc = "markRated"
  /\ orders' = [orders EXCEPT ![rq.order].isRated = TRUE]
  /\ last' = Response("rateVendor", rq.actor, rq.vendor, rq.order, None, 201)
  /\ reqs' = [reqs EXCEPT ![p] = Idle]
  /\ mail' = "none"
  /\ UNCHANGED <<jobs, ratings, vendors, waiters, users>>

Next ==
  \/ \E u \in Users, v \in Vendors, ok \in BOOLEAN :
       HireVendor(u, v, ok, "skipped")
  \/ \E a \in VendorUsers, o \in 1..(Len(orders) + 1), s \in OrderStatuses :
       UpdateOrderStatus(a, o, s)
  \/ \E u \in Users, v \in Vendors, score \in Scores : RateVendor(u, v, score)
  \/ \E a \in Accounts, r \in 1..(Len(ratings) + 1) : DeleteRating(a, r)
  \/ \E a \in Accounts, r \in 1..(Len(ratings) + 1) : GetRatingById(a, r)

Spec == Init /\ [][Next]_vars

\* the Job side: a Job needs an Order of the hiring vendor
NextJob ==
  \/ \E v \in Vendors : HireVendor("u1", v, TRUE, "skipped")
  \/ \E a \in VendorUsers, w \in Waiters, o \in 0..(Len(orders) + 1) :
       HireWaiter(a, w, o, "skipped")
  \/ \E a \in WaiterUsers, j \in 1..(Len(jobs) + 1), s \in JobStatuses,
        reason \in DeclineReasons :
       UpdateJobStatus(a, j, s, reason)
  \/ \E a \in VendorUsers, w \in Waiters, score \in Scores,
        attitude \in {NoScore, 5} :
       RateWaiter(a, w, score, attitude)

SpecJob == Init /\ [][NextJob]_vars

\* Rating.create(doc) seen from the model layer: the pre("save") hook, the
\* insert under the unique indexes, the post("save") hook; a rejected save
\* surfaces as an error of the request that made it
RatingCreate(doc) ==
  /\ IF ~RatingPreSaveOk(doc)
     THEN /\ last' = Response("Rating.create", doc.reviewer, None, NoDoc, None, 500)
          /\ UNCHANGED <<ratings, vendors, waiters>>
     ELSE IF UniqueIndexViolated(ratings, doc)
     THEN /\ last' = Response("Rating.create", doc.reviewer, None, NoDoc, None, 400)
          /\ UNCHANGED <<ratings, vendors, waiters>>
     ELSE /\ ratings' = Append(ratings, doc)
          /\ vendors' = VendorsAfterRatingSave(vendors, ratings', doc)
          /\ waiters' = WaitersAfterRatingSave(waiters, ratings', doc)
          /\ last' = Response("Rating.create", doc.reviewer, None, Len(ratings) + 1,
                              None, 201)
  /\ mail' = "none"
  /\ UNCHANGED <<orders, jobs, reqs, users>>

\* PUT /api/admin/users/:id/approve by admin account adm for account a; email
\* is what happens to the approval email
ApproveUser(adm, a, email) ==
  /\ IF a \notin DOMAIN users
     THEN /\ last' = Response("approveUser", adm, a, NoDoc, None, 404)
          /\ mail' = "none"
          /\ UNCHANGED users
     ELSE IF users[a].isApproved
     THEN /\ last' = Response("approveUser", adm, a, NoDoc, None, 400)
          /\ mail' = "none"
          /\ UNCHANGED users
     ELSE /\ users' = [users EXCEPT ![a].isApproved = TRUE]
          /\ mail' = email
          /\ last' = Response("approveUser", adm, a, NoDoc, None, AfterEmail(email, 200))
  /\ UNCHANGED <<orders, jobs, ratings, vendors, waiters, reqs>>

\* the accounts as registration leaves them: vendors and waiters wait for
\* approval
InitPending ==
  /\ orders = <<>>
  /\ jobs = <<>>
  /\ ratings = <<>>
  /\ vendors = [v \in Vendors |-> NewVendor]
  /\ waiters = [w \in Waiters |-> NewWaiter]
  /\ users = [a \in Accounts |-> NewUser(Role(a) = "user")]
  /\ mail = "none"
  /\ last = Response("none", None, None, NoDoc, None, 0)
  /\ reqs = [p \in Slots |-> Idle]

\* the requests that send an email
NextMail ==
  \/ \E a \in VendorUsers \cup {"wu1", "nobody"}, email \in EmailOutcomes :
       ApproveUser(AdminUser, a, email)
  \/ \E v \in Vendors, ok \in BOOLEAN, email \in EmailOutcomes :
       HireVendor("u1", v, ok, email)
  \/ \E a \in VendorUsers, o \in 0..Len(orders), email \in EmailOutcomes :
       HireWaiter(a, "w1", o, email)

SpecMail == InitPending /\ [][NextMail]_vars

\* ---------------------------------- updateOrderStatus, one await at a time
\* middleware and Vendor.findOne of updateOrderStatus: the request holds the
\* vendor document as it was read
UpdateOrderStatusFindVendor(p, a, o, status) ==
  LET owned == VendorOfUser(a) IN
  /\ reqs[p].pc = "idle"
  /\ IF ~CheckApproval(a)
     THEN /\ last' = Response("updateOrderStatus", a, None, o, status, 403)
          /\ UNCHANGED reqs
     ELSE IF status \notin OrderStatusInputs
     THEN /\ last' = Response("updateOrderStatus", a, None, o, status, 400)
          /\ UNCHANGED reqs
     ELSE IF owned = {}
     THEN /\ last' = Response("updateOrderStatus", a, None, o, status, 404)
          /\ UNCHANGED reqs
     ELSE LET v == CHOOSE x \in owned : TRUE IN
          /\ reqs' = [reqs EXCEPT ![p] =
                       [Idle EXCEPT !.pc = "findOrder", !.actor = a, !.vendor = v,
                                    !.order = o, !.status = status,
                                    !.snapCompleted = vendors[v].completedBookings]]
          /\ UNCHANGED last
  /\ mail' = "none"
  /\ UNCHANGED <<orders, jobs, ratings, vendors, waiters, users>>

\* Order.findOne of updateOrderStatus and the validTransitions check on the
\* status it read
UpdateOrderStatusFindOrder(p) ==
  LET rq == reqs[p] IN
  /\ rq.pc = "findOrder"
  /\ IF rq.order \notin DOMAIN orders \/ orders[rq.order].vendor # rq.vendor
     THEN /\ last' = Response("updateOrderStatus", rq.actor, None, rq.order, rq.status, 404)
          /\ reqs' = [reqs EXCEPT ![p] = Idle]
     ELSE IF rq.status \notin OrderValidTransitions(orders[rq.order].status)
     THEN /\ last' = Response("updateOrderStatus", rq.actor, None, rq.order, rq.status, 400)
          /\ reqs' = [reqs EXCEPT ![p] = Idle]
     ELSE /\ reqs' = [reqs EXCEPT ![p].pc =
                       IF rq.status = "completed" THEN "saveVendor" ELSE "saveOrder"]
          /\ UNCHANGED last
  /\ mail' = "none"
  /\ UNCHANGED <<orders, jobs, ratings, vendors, waiters, users>>

\* vendor.completedBookings += 1; await vendor.save(): the save sets the
\* field to the value computed from the document the request read
UpdateOrderStatusSaveVendor(p) ==
  LET rq == reqs[p] IN
  /\ rq.pc = "saveVendor"
  /\ rq.snapCompleted < MaxOrders
  /\ vendors' = [vendors EXCEPT ![rq.vendor].completedBookings = rq.snapCompleted + 1]
  /\ reqs' = [reqs EXCEPT ![p].pc = "saveOrder"]
  /\ mail' = "none"
  /\ UNCHANGED <<orders, jobs, ratings, waiters, users, last>>

\* await order.save() and the response of updateOrderStatus
UpdateOrderStatusSaveOrder(p) ==
  LET rq == reqs[p] IN
  /\ rq.pc = "saveOrder"
  /\ orders' = [orders EXCEPT ![rq.order].status = rq.status]
  /\ last' = Response("updateOrderStatus", rq.actor, None, rq.order, rq.status, 200)
  /\ reqs' = [reqs EXCEPT ![p] = Idle]
  /\ mail' = "none"
  /\ UNCHANGED <<jobs, ratings, vendors, waiters, users>>

\* await order.save() rejects (the database is unreachable, the write times
\* out): asyncHandler passes the error on and the request ends with status 500
UpdateOrderStatusSaveOrderFails(p) ==
  LET rq == reqs[p] IN
  /\ rq.pc = "saveOrder"
  /\ last' = Response("updateOrderStatus", rq.actor, None, rq.order, rq.status, 500)
  /\ reqs' = [reqs EXCEPT ![p] = Idle]
  /\ mail' = "none"
  /\ UNCHANGED <<orders, jobs, ratings, vendors, waiters, users>>

\* two status requests of vendor v1 in flight at once, no write failing
NextOrderConc ==
  \/ HireVendor("u1", "v1", TRUE, "skipped")
  \/ \E p \in Slots, o \in 1..Len(orders),
        s \in {"confirmed", "in-progress", "completed"} :
       UpdateOrderStatusFindVendor(p, VendorUser("v1"), o, s)
  \/ \E p \in Slots : UpdateOrderStatusFindOrder(p)
  \/ \E p \in Slots : UpdateOrderStatusSaveVendor(p)
  \/ \E p \in Slots : UpdateOrderStatusSaveOrder(p)

SpecOrderConc == Init /\ [][NextOrderConc]_vars

\* one status request of vendor v1 at a time, whose last write may fail
NextOrderSteps ==
  \/ HireVendor("u1", "v1", TRUE, "skipped")
  \/ \E o \in 1..Len(orders), s \in {"confirmed", "in-progress", "completed"} :
       UpdateOrderStatusFindVendor(1, VendorUser("v1"), o, s)
  \/ UpdateOrderStatusFindOrder(1)
  \/ UpdateOrderStatusSaveVendor(1)
  \/ UpdateOrderStatusSaveOrder(1)
  \/ UpdateOrderStatusSaveOrderFails(1)

SpecOrderSteps == Init /\ [][NextOrderSteps]_vars

\* ----------------------------------------- hireVendor, one await at a time
\* Vendor.findById and EventType.findById of hireVendor: the request holds the
\* vendor document as it was read
HireVendorFindVendor(p, u, v, eventTypeOk) ==
  /\ reqs[p].pc = "idle"
  /\ IF ~vendors[v].isAvailable \/ ~eventTypeOk
     THEN /\ last' = Response("hireVendor", u, v, NoDoc, None, 400)
          /\ UNCHANGED reqs
     ELSE /\ reqs' = [reqs EXCEPT ![p] =
                       [Idle EXCEPT !.pc = "createOrder", !.actor = u, !.vendor = v,
                                    !.snapBookings = vendors[v].totalBookings]]
          /\ UNCHANGED last
  /\ mail' = "none"
  /\ UNCHANGED <<orders, jobs, ratings, vendors, waiters, users>>

\* Order.create of hireVendor
HireVendorCreate(p) ==
  LET rq == reqs[p] IN
  /\ rq.pc = "createOrder"
  /\ Len(orders) < MaxOrders
  /\ orders' = Append(orders, NewOrder(rq.actor, rq.vendor))
  /\ reqs' = [reqs EXCEPT ![p].pc = "saveVendor", ![p].order = Len(orders) + 1]
  /\ mail' = "none"
  /\ UNCHANGED <<jobs, ratings, vendors, waiters, users, last>>

\* vendor.totalBookings += 1; await vendor.save(): the save sets the field to
\* the value computed from the document the request read; then the emails
\* and the response
HireVendorSave(p, email) ==
  LET rq == reqs[p] IN
  /\ rq.pc = "saveVendor"
  /\ rq.order # NoDoc
  /\ vendors' = [vendors EXCEPT ![rq.vendor].totalBookings = rq.snapBookings + 1]
  /\ mail' = email
  /\ last' = Response("hireVendor", rq.actor, rq.vendor, rq.order, None,
                      AfterEmail(email, 201))
  /\ reqs' = [reqs EXCEPT ![p] = Idle]
  /\ UNCHANGED <<orders, jobs, ratings, waiters, users>>

\* two hire requests for vendor v1 in flight at once, and the vendor working
\* its orders
NextHireConc ==
  \/ \E p \in Slots, u \in Users, ok \in BOOLEAN :
       HireVendorFindVendor(p, u, "v1", ok)
  \/ \E p \in Slots : HireVendorCreate(p)
  \/ \E p \in Slots : HireVendorSave(p, "skipped")
  \/ \E o \in 1..Len(orders), s \in {"confirmed", "in-progress", "completed"} :
       UpdateOrderStatus(VendorUser("v1"), o, s)

SpecHireConc == Init /\ [][NextHireConc]_vars

\* both kinds of transaction, each worked by the vendor and waiter accounts
NextOwner ==
  \/ \E v \in Vendors : HireVendor("u1", v, TRUE, "skipped")
  \/ \E a \in VendorUsers, o \in 1..Len(orders),
        s \in {"confirmed", "in-progress", "completed"} :
       UpdateOrderStatus(a, o, s)
  \/ \E a \in VendorUsers, o \in 1..Len(orders) : HireWaiter(a, "w1", o, "skipped")
  \/ \E a \in WaiterUsers, j \in 1..Len(jobs),
        s \in {"accepted", "in-progress", "completed"} :
       UpdateJobStatus(a, j, s, None)

SpecOwner == Init /\ [][NextOwner]_vars

\* ------------------------------------------------------------ deleteUser
\* what a deleted document leaves behind: its id is never given out again and
\* no query matches it
DeletedOrder == [NewOrder(None, None) EXCEPT !.status = "deleted"]
DeletedJob == [NewJob(None, None, NoDoc) EXCEPT !.status = "deleted"]
DeletedRating ==
  [NewVendorRating(None, None, NoDoc, NoScore) EXCEPT !.isActive = FALSE]

\* DELETE /api/admin/users/:id by admin account adm for account a; deleteMany
\* deletes the documents its filter matches and runs no document or
\* findOneAndDelete middleware
DeleteUser(adm, a) ==
  /\ IF a \notin DOMAIN users
     THEN /\ last' = Response("deleteUser", adm, a, NoDoc, None, 404)
          /\ UNCHANGED <<orders, jobs, ratings, vendors, waiters, users>>
     ELSE IF Role(a) = "admin"
     THEN /\ last' = Response("deleteUser", adm, a, NoDoc, None, 403)
          /\ UNCHANGED <<orders, jobs, ratings, vendors, waiters, users>>
     ELSE /\ IF Role(a) = "vendor"
             THEN LET owned == VendorOfUser(a) \cap DOMAIN vendors IN
                  /\ orders' = [i \in DOMAIN orders |->
                                  IF orders[i].vendor \in owned
                                  THEN DeletedOrder ELSE orders[i]]
                  /\ jobs' = [i \in DOMAIN jobs |->
                                IF jobs[i].vendor \in owned
                                THEN DeletedJob ELSE jobs[i]]
                  /\ ratings' = [i \in DOMAIN ratings |->
                                   IF ratings[i].vendor \in owned
                                   THEN DeletedRating ELSE ratings[i]]
                  /\ vendors' = [v \in DOMAIN vendors \ owned |-> vendors[v]]
                  /\ UNCHANGED waiters
             ELSE IF Role(a) = "waiter"
             THEN LET owned == WaiterOfUser(a) \cap DOMAIN waiters IN
                  /\ jobs' = [i \in DOMAIN jobs |->
                                IF jobs[i].waiter \in owned
                                THEN DeletedJob ELSE jobs[i]]
                  /\ ratings' = [i \in DOMAIN ratings |->
                                   IF ratings[i].waiter \in owned
                                   THEN DeletedRating ELSE ratings[i]]
                  /\ waiters' = [w \in DOMAIN waiters \ owned |-> waiters[w]]
                  /\ UNCHANGED <<orders, vendors>>
             ELSE /\ orders' = [i \in DOMAIN orders |->
                                  IF orders[i].user = a
                                  THEN DeletedOrder ELSE orders[i]]
                  /\ ratings' = [i \in DOMAIN ratings |->
                                   IF ratings[i].reviewer = a
                                   THEN DeletedRating ELSE ratings[i]]
                  /\ UNCHANGED <<jobs, vendors, waiters>>
          /\ users' = [x \in DOMAIN users \ {a} |-> users[x]]
          /\ last' = Response("deleteUser", adm, a, NoDoc, None, 200)
  /\ mail' = "none"
  /\ UNCHANGED reqs

\* users booking and rating vendor v1 while an admin deletes accounts; only
\* an account that exists gets past protect
NextAdmin ==
  \/ \E u \in Users \cap DOMAIN users : HireVendor(u, "v1", TRUE, "skipped")
  \/ \E o \in 1..Len(orders), s \in {"confirmed", "in-progress", "completed"} :
       UpdateOrderStatus(VendorUser("v1"), o, s)
  \/ \E u \in Users \cap DOMAIN users, score \in Scores : RateVendor(u, "v1", score)
  \/ \E a \in Users \cup {VendorUser("v2"), WaiterUser("w2"), AdminUser} :
       DeleteUser(AdminUser, a)

SpecAdmin == Init /\ [][NextAdmin]_vars

\* ------------------------------------------- updateRating called directly
\* vendor.updateRating() on the stored profile v: the aggregate is computed
\* and saved; arg tells whether the call before it was the same call
VendorUpdateRatingCall(v) ==
  /\ vendors' = [vendors EXCEPT ![v] = VendorUpdateRating(@, ratings, v)]
  /\ last' = Response("updateRating", None, v, NoDoc,
                      IF last.op = "updateRating" /\ last.target = v
                      THEN "repeated" ELSE "first", 0)
  /\ mail' = "none"
  /\ UNCHANGED <<orders, jobs, ratings, waiters, reqs, users>>

\* waiter.updateRating() on the stored profile w
WaiterUpdateRatingCall(w) ==
  /\ waiters' = [waiters EXCEPT ![w] = WaiterUpdateRating(@, ratings, w)]
  /\ last' = Response("updateRating", None, w, NoDoc,
                      IF last.op = "updateRating" /\ last.target = w
                      THEN "repeated" ELSE "first", 0)
  /\ mail' = "none"
  /\ UNCHANGED <<orders, jobs, ratings, vendors, reqs, users>>

\* rating documents as the two rate handlers build them
RatingDocs ==
  {NewVendorRating(u, "v1", o, score) :
     u \in Users, o \in 1..MaxOrders, score \in Scores}
  \cup {NewWaiterRating(VendorUser("v1"), "w1", j, score, attitude) :
     j \in 1..MaxJobs, score \in Scores, attitude \in {NoScore, 5}}

\* the rating collections of up to MaxRatings documents that the unique
\* indexes admit
RatingCollections ==
  {rs \in UNION {[1..n -> RatingDocs] : n \in 0..MaxRatings} :
     \A i \in DOMAIN rs : ~UniqueIndexViolated(SubSeq(rs, 1, i - 1), rs[i])}

\* any stored ratings, the profiles not yet recomputed
InitAggregate ==
  /\ orders = <<>>
  /\ jobs = <<>>
  /\ ratings \in RatingCollections
  /\ vendors = [v \in Vendors |-> NewVendor]
  /\ waiters = [w \in Waiters |-> NewWaiter]
  /\ users = [a \in Accounts |-> NewUser(TRUE)]
  /\ mail = "none"
  /\ last = Response("none", None, None, NoDoc, None, 0)
  /\ reqs = [p \in Slots |-> Idle]

NextAggregate ==
  \/ \E v \in Vendors : VendorUpdateRatingCall(v)
  \/ \E w \in Waiters : WaiterUpdateRatingCall(w)

SpecAggregate == InitAggregate /\ [][NextAggregate]_vars

\* the ways a Rating gets stored: the two rate handlers, and Rating.create
\* handed a document with both targets or with neither
NextSave ==
  \/ \E u \in Users : HireVendor(u, "v1", TRUE, "skipped")
  \/ \E o \in 1..Len(orders), s \in {"confirmed", "in-progress", "completed"} :
       UpdateOrderStatus(VendorUser("v1"), o, s)
  \/ \E u \in Users, score \in Scores : RateVendor(u, "v1", score)
  \/ \E a \in VendorUsers, w \in Waiters, score \in Scores :
       RateWaiter(a, w, score, 5)
  \/ \E doc \in RatingsWithBothOrNeither : RatingCreate(doc)

SpecSave == Init /\ [][NextSave]_vars

\* the life of a rating: submitted for a completed order, reported, responded
\* to, retracted
NextRating ==
  \/ Len(orders) < MaxRatedOrders /\ HireVendor("u1", "v1", TRUE, "skipped")
  \/ \E o \in 1..Len(orders), s \in {"confirmed", "in-progress", "completed"} :
       UpdateOrderStatus(VendorUser("v1"), o, s)
  \/ \E score \in Scores : RateVendor("u1", "v1", score)
  \/ \E r \in 1..(Len(ratings) + 1) : DeleteRating(AdminUser, r)
  \/ \E r \in 1..(Len(ratings) + 1), reason \in ReportReasons :
       ReportRating("u2", r, reason)
  \/ \E a \in {"vu1", "vu2", "wu1"}, r \in 1..(Len(ratings) + 1),
        message \in Messages, now \in Times :
       RespondToRating(a, r, message, now)

SpecRating == Init /\ [][NextRating]_vars

\* rating submissions suspended at their awaits, interleaved with each other
\* and with the order life cycle
NextConc ==
  \/ \E u \in Users : HireVendor(u, "v1", TRUE, "skipped")
  \/ \E o \in 1..Len(orders), s \in {"confirmed", "in-progress", "completed"} :
       UpdateOrderStatus(VendorUser("v1"), o, s)
  \/ \E p \in Slots, u \in Users, score \in Scores :
       RateVendorFindOrder(p, u, "v1", score)
  \/ \E p \in Slots : RateVendorFindRating(p)
  \/ \E p \in Slots : RateVendorCreate(p)
  \/ \E p \in Slots : RatingPostSaveFind(p)
  \/ \E p \in Slots : RatingPostSaveAggregate(p)
  \/ \E p \in Slots : RatingPostSaveSave(p)
  \/ \E p \in Slots : RateVendorMarkRated(p)

SpecConc == Init /\ [][NextConc]_vars

\* ======================================================================
\* Properties
\* ======================================================================

\* the edges the Order status is allowed to move along
OrderEdges ==
  {<<"pending", "confirmed">>, <<"pending", "cancelled">>,
   <<"confirmed", "in-progress">>, <<"confirmed", "cancelled">>,
   <<"in-progress", "completed">>, <<"in-progress", "cancelled">>}

\* the edges the Job status is allowed to move along
JobEdges ==
  {<<"pending", "accepted">>, <<"pending", "declined">>,
   <<"accepted", "in-progress">>, <<"accepted", "cancelled">>,
   <<"in-progress", "completed">>}

OrdersEnteringCompleted(v) ==
  {o \in DOMAIN orders :
     /\ orders[o].vendor = v
     /\ orders[o].status # "completed"
     /\ o \in DOMAIN orders'
     /\ orders'[o].status = "completed"}

\* C3: with requests executed one at a time, every request raises the owning
\* vendor's completedBookings by exactly 1 when it moves an order into
\* "completed" and leaves the counter alone otherwise, so the counter is the
\* number of the vendor's completed orders.
C3_CompletedBookingsOncePerOrder ==
  [][\A v \in Vendors :
       /\ vendors'[v].completedBookings
            = vendors[v].completedBookings + Cardinality(OrdersEnteringCompleted(v))
       /\ vendors'[v].completedBookings
            = Cardinality({o \in DOMAIN orders' :
                 orders'[o].vendor = v /\ orders'[o].status = "completed"})]_vars

\* an order went pending, confirmed, in-progress, completed, a further request
\* on it was refused, and its vendor's counter stands at 1
C3_Witness ==
  /\ last.op = "updateOrderStatus"
  /\ last.doc \in DOMAIN orders
  /\ orders[last.doc].status = "completed"
  /\ last.actor = VendorUser(orders[last.doc].vendor)
  /\ last.code = 400
  /\ last.arg = "completed"
  /\ vendors[orders[last.doc].vendor].completedBookings = 1

\* the active ratings that reference a profile
ActiveVendorRatings(v) ==
  {i \in DOMAIN ratings : ratings[i].vendor = v /\ ratings[i].isActive}

ActiveWaiterRatings(w) ==
  {i \in DOMAIN ratings : ratings[i].waiter = w /\ ratings[i].isActive}

RatingScore == [i \in DOMAIN ratings |-> ratings[i].rating]

\* the mean of the scores of the ratings S rounded up to one decimal, in
\* tenths, and 0 for no rating
MeanUpToTenths(S) ==
  IF S = {} THEN 0
  ELSE CHOOSE t \in 0..50 :
         /\ t * Cardinality(S) >= 10 * SumOver(RatingScore, S)
         /\ (t - 1) * Cardinality(S) < 10 * SumOver(RatingScore, S)

\* C4: after any sequence of rating submissions and retractions, every
\* profile's averageRating is the mean of its active ratings rounded up to one
\* decimal and its totalRatings their number; all are 0 when no active rating
\* is left.
C4_AggregatesAreOfActiveRatings ==
  /\ \A v \in Vendors :
       /\ vendors[v].totalRatings = Cardinality(ActiveVendorRatings(v))
       /\ vendors[v].averageRating = MeanUpToTenths(ActiveVendorRatings(v))
  /\ \A w \in Waiters :
       /\ waiters[w].totalRatings = Cardinality(ActiveWaiterRatings(w))
       /\ waiters[w].averageRating = MeanUpToTenths(ActiveWaiterRatings(w))
       /\ (ActiveWaiterRatings(w) = {} => waiters[w].attitudeRating = 0)

\* two ratings of the same (reviewer, target, transaction) triple
SameTriple(x, y) ==
  /\ x.reviewer = y.reviewer
  /\ x.vendor = y.vendor
  /\ x.waiter = y.waiter
  /\ x.order = y.order
  /\ x.job = y.job

\* C5: in every state, also those reached by interleaving rating submissions,
\* no two active ratings have the same (reviewer, target, transaction) triple.
C5_NoTwoActiveRatingsOfATriple ==
  \A i \in DOMAIN ratings, j \in DOMAIN ratings :
    (i # j /\ ratings[i].isActive /\ ratings[j].isActive)
      => ~SameTriple(ratings[i], ratings[j])

\* two submissions of one triple are in flight: one has inserted its rating,
\* the other has passed its existing-rating lookup and is about to insert
C5_Witness ==
  \E p \in Slots, q \in Slots :
    /\ p # q
    /\ reqs[p].pc = "create"
    /\ reqs[q].pc = "hookFind"
    /\ reqs[p].actor = reqs[q].actor
    /\ reqs[p].vendor = reqs[q].vendor
    /\ reqs[p].order = reqs[q].order

\* an Order of user u with vendor v is completed
HasCompletedOrder(u, v) ==
  \E o \in DOMAIN orders :
    orders[o].user = u /\ orders[o].vendor = v /\ orders[o].status = "completed"

\* C6: a rating of a vendor is created only when the reviewer has a completed
\* Order with that vendor; without one rateVendor is rejected and creates no
\* Rating, and the orders and the vendors' aggregates stay as they are.
C6_VendorRatingNeedsCompletedOrder ==
  [][/\ (last'.op = "rateVendor" /\ ~HasCompletedOrder(last'.actor, last'.target))
          => /\ last'.code = 400
             /\ ratings' = ratings
             /\ orders' = orders
             /\ vendors' = vendors
     /\ \A i \in DOMAIN ratings' \ DOMAIN ratings :
          ratings'[i].vendor # None
            => HasCompletedOrder(ratings'[i].reviewer, ratings'[i].vendor)]_vars

\* a user whose only order with the vendor is in progress was refused
C6_Witness ==
  /\ last.op = "rateVendor"
  /\ last.code = 400
  /\ ~HasCompletedOrder(last.actor, last.target)
  /\ \E o \in DOMAIN orders :
       /\ orders[o].user = last.actor
       /\ orders[o].vendor = last.target
       /\ orders[o].status = "in-progress"
  /\ ratings = <<>>

\* an active rating of reviewer u for vendor v under order o exists
HasActiveVendorRating(u, v, o) ==
  \E i \in DOMAIN ratings :
    /\ ratings[i].isActive
    /\ ratings[i].reviewer = u
    /\ ratings[i].vendor = v
    /\ ratings[i].order = o

\* C7: a submission for a (reviewer, vendor, order) triple that has an active
\* rating is rejected, creates no Rating and leaves the vendor's averageRating
\* and totalRatings unchanged.
C7_DuplicateSubmissionRejected ==
  [][(/\ last'.op = "rateVendor"
      /\ last'.doc # NoDoc
      /\ HasActiveVendorRating(last'.actor, last'.target, last'.doc))
       => /\ last'.code = 400
          /\ ratings' = ratings
          /\ vendors'[last'.target].averageRating = vendors[last'.target].averageRating
          /\ vendors'[last'.target].totalRatings = vendors[last'.target].totalRatings]_vars

\* a second submission for a triple whose rating is active was refused
C7_Witness ==
  /\ last.op = "rateVendor"
  /\ last.doc # NoDoc
  /\ last.code = 400
  /\ HasActiveVendorRating(last.actor, last.target, last.doc)
  /\ vendors[last.target].totalRatings = 1

\* the ratings of reviewer u for vendor v under order o
VendorRatingsOfTriple(u, v, o) ==
  {i \in DOMAIN ratings :
     ratings[i].reviewer = u /\ ratings[i].vendor = v /\ ratings[i].order = o}

\* C8: once the rating of a (reviewer, vendor, order) triple has been
\* retracted with deleteRating, a new submission for that triple succeeds and
\* creates a new active rating.
C8_ResubmissionAfterRetraction ==
  [][(/\ last'.op = "rateVendor"
      /\ last'.doc # NoDoc
      /\ VendorRatingsOfTriple(last'.actor, last'.target, last'.doc) # {}
      /\ \A i \in VendorRatingsOfTriple(last'.actor, last'.target, last'.doc) :
           ~ratings[i].isActive)
       => /\ last'.code = 201
          /\ Len(ratings') = Len(ratings) + 1
          /\ ratings'[Len(ratings')].isActive
          /\ ratings'[Len(ratings')].reviewer = last'.actor
          /\ ratings'[Len(ratings')].vendor = last'.target
          /\ ratings'[Len(ratings')].order = last'.doc]_vars

\* the accounts a rating is to be shown to: its reviewer, the account behind
\* the rated profile, an administrator
MayView(r) ==
  {ratings[r].reviewer, AdminUser}
    \cup (IF ratings[r].vendor # None THEN {VendorUser(ratings[r].vendor)} ELSE {})
    \cup (IF ratings[r].waiter # None THEN {WaiterUser(ratings[r].waiter)} ELSE {})

\* C9: a successful deleteRating keeps the Rating record, with isActive false
\* and nothing else changed, and a retracted rating is still returned by
\* getRatingById to its reviewer, the rated party and an administrator.
C9_RetractedRatingKeptAndVisible ==
  [][/\ (last'.op = "deleteRating" /\ last'.code = 200)
          => /\ DOMAIN ratings' = DOMAIN ratings
             /\ ratings' = [ratings EXCEPT ![last'.doc].isActive = FALSE]
     /\ (/\ last'.op = "getRatingById"
         /\ last'.doc \in DOMAIN ratings
         /\ ~ratings[last'.doc].isActive
         /\ last'.actor \in MayView(last'.doc))
          => last'.code = 200]_vars

\* the soft-delete half of C9 alone: the record is kept and only isActive changes
C9_RecordKept ==
  [][(last'.op = "deleteRating" /\ last'.code = 200)
       => /\ DOMAIN ratings' = DOMAIN ratings
          /\ ratings' = [ratings EXCEPT ![last'.doc].isActive = FALSE]]_vars

\* the completed orders of user u with vendor v that have no rating by u
UnratedCompletedOrders(u, v) ==
  {o \in DOMAIN orders :
     /\ orders[o].user = u /\ orders[o].vendor = v
     /\ orders[o].status = "completed"
     /\ VendorRatingsOfTriple(u, v, o) = {}}

\* C10: ratings are accepted per transaction: while the reviewer has a
\* completed order with the vendor that is not yet rated, a submission is
\* accepted and rates such an order, so k completed orders take k ratings and
\* all end with isRated true.
C10_OneRatingPerCompletedOrder ==
  [][(/\ last'.op = "rateVendor"
      /\ UnratedCompletedOrders(last'.actor, last'.target) # {})
       => /\ last'.code = 201
          /\ last'.doc \in UnratedCompletedOrders(last'.actor, last'.target)
          /\ orders'[last'.doc].isRated]_vars

\* the orders of vendor v created in the step
OrdersCreatedFor(v) ==
  {o \in DOMAIN orders' \ DOMAIN orders : orders'[o].vendor = v}

JobsEntering(w, status) ==
  {j \in DOMAIN jobs :
     /\ jobs[j].waiter = w
     /\ jobs[j].status # status
     /\ jobs'[j].status = status}

\* C12: in every step the waiter's totalJobs grows by the number of its jobs
\* that enter accepted and by nothing else, completedJobs by the number of its
\* jobs that enter completed, which get completedAt stamped; creating a job
\* changes neither counter.
C12_JobCountersFollowTransitions ==
  [][\A w \in Waiters :
       /\ waiters'[w].totalJobs
            = waiters[w].totalJobs + Cardinality(JobsEntering(w, "accepted"))
       /\ waiters'[w].completedJobs
            = waiters[w].completedJobs + Cardinality(JobsEntering(w, "completed"))
       /\ \A j \in JobsEntering(w, "completed") : jobs'[j].completedAt]_vars

\* C13: a step that moves a pending Job to declined sets respondedAt, stores
\* the declineReason that was supplied and leaves every waiter's totalJobs
\* and completedJobs alone; every later updateJobStatus request on a declined
\* job is rejected and changes nothing; respondedAt gets set only in a step
\* that moves the job into accepted or declined.
C13_DeclinedJobIsFinal ==
  [][\A j \in DOMAIN jobs :
       /\ (jobs[j].status = "pending" /\ jobs'[j].status = "declined")
            => /\ jobs'[j].respondedAt
               /\ \A w \in Waiters :
                    /\ waiters'[w].totalJobs = waiters[w].totalJobs
                    /\ waiters'[w].completedJobs = waiters[w].completedJobs
               /\ \A a \in WaiterUsers, reason \in DeclineReasons \ {None} :
                    UpdateJobStatus(a, j, "declined", reason)
                      => jobs'[j].declineReason = reason
       /\ (/\ jobs[j].status = "declined"
           /\ last'.op = "updateJobStatus"
           /\ last'.doc = j)
            => (last'.code >= 400 /\ jobs' = jobs /\ waiters' = waiters)
       /\ (~jobs[j].respondedAt /\ jobs'[j].respondedAt)
            => /\ jobs'[j].status # jobs[j].status
               /\ jobs'[j].status \in {"accepted", "declined"}]_vars

\* a job was declined with a reason, and a later request of its waiter to
\* accept it was refused
C13_Witness ==
  /\ last.op = "updateJobStatus"
  /\ last.doc \in DOMAIN jobs
  /\ last.actor = WaiterUser(jobs[last.doc].waiter)
  /\ last.arg = "accepted"
  /\ last.code = 400
  /\ jobs[last.doc].status = "declined"
  /\ jobs[last.doc].respondedAt
  /\ jobs[last.doc].declineReason = "busy"
  /\ waiters[jobs[last.doc].waiter].totalJobs = 0

\* C14: a deleteRating request succeeds only for the rating's reviewer or an
\* administrator; from any other account it is rejected and leaves the
\* ratings and the profiles' aggregates as they are.
C14_OnlyReviewerOrAdminRetracts ==
  [][(last'.op = "deleteRating" /\ last'.doc \in DOMAIN ratings)
       => LET allowed == {ratings[last'.doc].reviewer, AdminUser} IN
          /\ last'.code = 200 => last'.actor \in allowed
          /\ last'.actor \notin allowed
               => /\ last'.code >= 400
                  /\ ratings' = ratings
                  /\ vendors' = vendors
                  /\ waiters' = waiters]_vars

\* the account of the rated vendor asked to delete an active rating and was
\* refused
C14_Witness ==
  /\ last.op = "deleteRating"
  /\ last.doc \in DOMAIN ratings
  /\ last.code = 403
  /\ ratings[last.doc].vendor # None
  /\ last.actor = VendorUser(ratings[last.doc].vendor)
  /\ ratings[last.doc].isActive
  /\ vendors[ratings[last.doc].vendor].totalRatings = 1

\* the account behind the profile a rating is about
RatedParty(rating) ==
  IF rating.vendor # None THEN VendorUser(rating.vendor)
  ELSE WaiterUser(rating.waiter)

\* C15: respondToRating succeeds only for the account that owns the rated
\* profile, and once a respondToRating call on a rating has succeeded (its
\* response has a respondedAt), every later respondToRating call on that
\* rating is rejected and the stored response never changes.
C15_ResponseIsWriteOnce ==
  [][\A r \in DOMAIN ratings :
       /\ (last'.op = "respondToRating" /\ last'.doc = r /\ last'.code = 200)
            => last'.actor = RatedParty(ratings[r])
       /\ ratings[r].response.respondedAt # NoTime
            => /\ ratings'[r].response = ratings[r].response
               /\ (last'.op = "respondToRating" /\ last'.doc = r)
                    => last'.code >= 400]_vars

\* the part of C15 that the handler keeps: a response with a message is
\* never replaced, and only the rated party gets to respond
C15_ResponseWithMessageIsKept ==
  [][\A r \in DOMAIN ratings :
       /\ (last'.op = "respondToRating" /\ last'.doc = r /\ last'.code = 200)
            => last'.actor = RatedParty(ratings[r])
       /\ AlreadyResponded(ratings[r])
            => /\ ratings'[r].response = ratings[r].response
               /\ (last'.op = "respondToRating" /\ last'.doc = r)
                    => last'.code >= 400]_vars

WellTargeted(rating) ==
  \/ /\ rating.vendor # None /\ rating.waiter = None
     /\ rating.order # NoDoc /\ rating.job = NoDoc
  \/ /\ rating.waiter # None /\ rating.vendor = None
     /\ rating.job # NoDoc /\ rating.order = NoDoc

\* C17: every stored Rating has exactly one of vendor and waiter, with an
\* order and no job for a vendor and a job and no order for a waiter; a save
\* of a rating with both targets or with neither is rejected and stores
\* nothing.
C17_RatingHasOneTarget ==
  [][/\ \A i \in DOMAIN ratings' : WellTargeted(ratings'[i])
     /\ \A doc \in RatingsWithBothOrNeither :
          RatingCreate(doc) => (last'.code >= 400 /\ ratings' = ratings)]_vars

\* a rating of a vendor is stored, and a save of a document with both targets
\* or with neither has just been rejected
C17_Witness ==
  /\ last.op = "Rating.create"
  /\ last.code = 500
  /\ ratings # <<>>
  /\ ratings[1].vendor = "v1"


\* C18: when the notification email of hireVendor, hireWaiter or approveUser
\* throws, the request still answers with success and its effect is stored:
\* the Order exists and the vendor's totalBookings counts it, the Job
\* exists, the account is approved.
C18_EmailFailureIsSwallowed ==
  [][mail' = "failed" =>
       /\ last'.op \in {"hireVendor", "hireWaiter", "approveUser"}
       /\ last'.op = "hireVendor" =>
            /\ last'.code = 201
            /\ Len(orders') = Len(orders) + 1
            /\ last'.doc = Len(orders')
            /\ orders'[last'.doc].vendor = last'.target
            /\ vendors'[last'.target].totalBookings
                 = vendors[last'.target].totalBookings + 1
       /\ last'.op = "hireWaiter" =>
            /\ last'.code = 201
            /\ Len(jobs') = Len(jobs) + 1
            /\ last'.doc = Len(jobs')
            /\ jobs'[last'.doc].waiter = last'.target
       /\ last'.op = "approveUser" =>
            /\ last'.code = 200
            /\ ~users[last'.target].isApproved
            /\ users'[last'.target].isApproved]_vars

\* a job offer whose email was lost is stored and answered with 201
C18_Witness ==
  /\ mail = "failed"
  /\ last.op = "hireWaiter"
  /\ last.code = 201
  /\ Len(jobs) = 1
  /\ Len(orders) = 1
  /\ users[last.actor].isApproved


\* C19: two updateOrderStatus requests on the same order are serialized: the
\* request that is answered 200 for "completed" stores the completion of an
\* order that no other request has completed in the meantime.
C19_CompletionAcceptedOnce ==
  [][\A p \in Slots :
       (UpdateOrderStatusSaveOrder(p) /\ reqs[p].status = "completed")
         => orders[reqs[p].order].status # "completed"]_vars

\* the orders of vendor v stored as completed
OrdersCompletedFor(v) ==
  {o \in DOMAIN orders : orders[o].vendor = v /\ orders[o].status = "completed"}

\* C20: in every reachable state, a write that failed included, a vendor's
\* completedBookings counts no order whose stored status is not completed.
C20_CounterOnlyForCompletedOrders ==
  \A v \in Vendors :
    vendors[v].completedBookings <= Cardinality(OrdersCompletedFor(v))

\* the same with no request in flight
C20_CounterOnlyForCompletedOrdersAtRest ==
  (\A p \in Slots : reqs[p].pc = "idle") => C20_CounterOnlyForCompletedOrders


\* the ratings stored for vendor v come from reviewers that all differ
ByDifferentReviewers(v) ==
  \A i, j \in VendorRatingIds(ratings, v) :
    i # j => ratings[i].reviewer # ratings[j].reviewer

\* C21: once the rating requests in flight have all responded, a vendor rated
\* by different reviewers has the totalRatings and averageRating of all the
\* ratings stored for it, whatever the interleaving of the recomputations was.
C21_AggregateCountsConcurrentRatings ==
  (\A p \in Slots : reqs[p].pc = "idle") =>
    \A v \in Vendors :
      LET doc == VendorUpdateRating(vendors[v], ratings, v) IN
      ByDifferentReviewers(v) =>
        /\ vendors[v].totalRatings = doc.totalRatings
        /\ vendors[v].averageRating = doc.averageRating


\* the completed jobs of waiter w with the vendor profile of account a
CompletedJobsWith(a, w) ==
  {j \in DOMAIN jobs :
     /\ jobs[j].waiter = w
     /\ jobs[j].vendor \in VendorOfUser(a)
     /\ jobs[j].status = "completed"}

\* C23: a rateWaiter request creates a rating only when the reviewing vendor
\* has a completed job with the rated waiter, and a vendor that has one and
\* has not rated the waiter yet is answered 201.
C23_WaiterRatedByItsVendorsOnly ==
  [][\A a \in VendorUsers, w \in Waiters, score \in Scores, attitude \in {NoScore, 5} :
       RateWaiter(a, w, score, attitude) =>
         /\ (last'.code = 201 => CompletedJobsWith(a, w) # {})
         /\ (CompletedJobsWith(a, w) # {} /\ WaiterRatingIds(ratings, w) = {})
              => last'.code = 201]_vars


\* C24: a hireVendor request for a vendor that is unavailable, or whose
\* account has not been approved, is rejected, creates no Order and leaves
\* the vendor's totalBookings unchanged.
C24_HireNeedsApprovedAvailableVendor ==
  [][\A u \in Users, v \in Vendors, ok \in BOOLEAN, email \in EmailOutcomes :
       (/\ HireVendor(u, v, ok, email)
        /\ (~vendors[v].isAvailable \/ ~users[VendorUser(v)].isApproved))
         => /\ last'.code \notin {200, 201}
            /\ orders' = orders
            /\ vendors'[v].totalBookings = vendors[v].totalBookings]_vars


\* C22: updateRating called on a profile right after updateRating on the same
\* profile, the stored ratings being the same, changes nothing: averageRating,
\* totalRatings and a waiter's attitudeRating keep the values of the first call.
C22_UpdateRatingIsIdempotent ==
  [][/\ \A v \in Vendors :
          (VendorUpdateRatingCall(v) /\ last'.arg = "repeated")
            => vendors'[v] = vendors[v]
     /\ \A w \in Waiters :
          (WaiterUpdateRatingCall(w) /\ last'.arg = "repeated")
            => waiters'[w] = waiters[w]]_vars

\* updateRating has run twice in a row on a vendor whose three ratings give
\* an average that needs rounding up
C22_Witness ==
  /\ last.op = "updateRating"
  /\ last.target = "v1"
  /\ last.arg = "repeated"
  /\ vendors["v1"].totalRatings = 3
  /\ vendors["v1"].averageRating = 44


C26_ParentOrderIsOptional ==
  [][\A a \in VendorUsers, w \in Waiters, o \in 0..(Len(orders) + 1) :
       (HireWaiter(a, w, o, "skipped") /\ CheckApproval(a) /\ waiters[w].isAvailable)
         => /\ o = NoDoc =>
                 /\ last'.code = 201
                 /\ Len(jobs') = Len(jobs) + 1
                 /\ jobs'[Len(jobs')].status = "pending"
                 /\ jobs'[Len(jobs')].order = NoDoc
                 /\ jobs'[Len(jobs')].waiter = w
            /\ (o # NoDoc /\ (o \notin DOMAIN orders
                               \/ orders[o].vendor \notin VendorOfUser(a))) =>
                 /\ last'.code = 404
                 /\ jobs' = jobs]_vars


C28_CompletedAtMostTotal ==
  /\ \A v \in Vendors : vendors[v].completedBookings <= vendors[v].totalBookings
  /\ \A w \in Waiters : waiters[w].completedJobs <= waiters[w].totalJobs


\* the same with no request in flight
C28_CompletedAtMostTotalAtRest ==
  (\A p \in Slots : reqs[p].pc = "idle") => C28_CompletedAtMostTotal


\* the vendors that account a has rated
RatedBy(a) == {ratings[i].vendor : i \in {i \in DOMAIN ratings : ratings[i].reviewer = a}}

\* C29: after an admin deleteUser of a reviewer (role user), every vendor that
\* reviewer had rated has the totalRatings and averageRating of the ratings
\* still stored for it (0 and 0 when none is left).
C29_DeleteUserKeepsAggregates ==
  [][\A a \in Users :
       (DeleteUser(AdminUser, a) /\ last'.code = 200)
         => \A v \in RatedBy(a) \cap DOMAIN vendors' :
              LET doc == VendorUpdateRating(vendors'[v], ratings', v) IN
              /\ vendors'[v].totalRatings = doc.totalRatings
              /\ vendors'[v].averageRating = doc.averageRating]_vars


\* C30: updateOrderStatus by a vendor account whose profile is not the order's
\* vendor, and updateJobStatus by a waiter account whose profile is not the
\* job's waiter, are answered 404 and change no transaction and no profile
\* counter; a transaction's status changes only in a request of its owner.
C30_OnlyTheOwnerMovesATransaction ==
  [][/\ (/\ last'.op = "updateOrderStatus"
         /\ last'.doc \in DOMAIN orders
         /\ orders[last'.doc].vendor \notin VendorOfUser(last'.actor))
          => /\ last'.code = 404
             /\ UNCHANGED <<orders, jobs, vendors, waiters>>
     /\ (/\ last'.op = "updateJobStatus"
         /\ last'.doc \in DOMAIN jobs
         /\ jobs[last'.doc].waiter \notin WaiterOfUser(last'.actor))
          => /\ last'.code = 404
             /\ UNCHANGED <<orders, jobs, vendors, waiters>>
     /\ \A o \in DOMAIN orders :
          orders'[o].status # orders[o].status
            => /\ last'.op = "updateOrderStatus"
               /\ last'.doc = o
               /\ orders[o].vendor \in VendorOfUser(last'.actor)
     /\ \A j \in DOMAIN jobs :
          jobs'[j].status # jobs[j].status
            => /\ last'.op = "updateJobStatus"
               /\ last'.doc = j
               /\ jobs[j].waiter \in WaiterOfUser(last'.actor)]_vars

\* the other vendor has asked to confirm a pending order and been refused,
\* while a job of waiter w1 is under way
C30_Witness ==
  /\ last.op = "updateOrderStatus"
  /\ last.code = 404
  /\ last.arg = "confirmed"
  /\ last.doc \in DOMAIN orders
  /\ orders[last.doc].status = "pending"
  /\ orders[last.doc].vendor \notin VendorOfUser(last.actor)
  /\ \E j \in DOMAIN jobs : jobs[j].status = "in-progress"

====
